---- MODULE Spec2Model ----
(***************************************************************************)
(* Model of seqdataloader/dbingest/__init__.py: the three-level ingestion  *)
(* pipeline (ingest -> create_tiledb_array -> process_chrom ->             *)
(* write_array_to_tiledb -> write_chunk).                                  *)
(*                                                                         *)
(* Three specifications share this module.                                 *)
(*   SpecChrom     : one process_chrom task with its data (provisioning,   *)
(*                   the dictionary handed to the writer, the write        *)
(*                   batches and the stored content), run once or several  *)
(*                   times in a row.                                       *)
(*   Spec          : the process tree and its control flow (pools, waves,  *)
(*                   failures, interrupt, handlers), data-free, with the   *)
(*                   default sizes of the chromosome and write pools.      *)
(*   SpecFaultFree : the same process tree with nothing failing, over any  *)
(*                   pool sizes and a chromosome table of several rows.    *)
(***************************************************************************)
EXTENDS Integers, Sequences, FiniteSets, TLC

\* ------------------------------------------------------------------ bounds
MaxSize == 3
MaxBatch == 2
NumAttrs == 2
MaxChunk == 2
MaxRuns == 2
NumDatasets == 2
NumChroms == 1
MaxTaskThreads == 2
MaxEvents == 2
ChromLen == 2
MaxChroms == 2
MaxExtraWorkers == 1

\* ------------------------------------------------- defaults of the program
\* args_object_from_args_dict, lines 40-44
default_chrom_threads == 1
default_write_threads == 1
default_batch_size == 1000000

\* ------------------------------------------------------- values and helpers
\* np.nan, the missing-value sentinel of line 155
NaN == -1
\* a cell of a freshly created dense array that no write has touched yet
Unwritten == -2

Min(a, b) == IF a < b THEN a ELSE b

\* list(get_attribute_info(attribute_config).keys()): the configured attributes
required_attrib == 1..NumAttrs

\* the value a previous run left in cell i (0-based) of attribute a
OldVal(a, i) == 100 + 10 * a + i
\* the value the parser produced for cell i (0-based) of attribute a
NewVal(a, i) == 200 + 10 * a + i

\* Python's seq[lo:hi] for 0 <= lo: the stop index is clamped to the length
PySlice(s, lo, hi) == SubSeq(s, lo + 1, Min(hi, Len(s)))

\* np.full(size, np.nan)
NanColumn(n) == [i \in 1..n |-> NaN]

\* chunkify(pool_inputs, chunk=chunk_size): the k-th wave (k >= 1) of a list of
\* n tasks, as the set of its 1-based indices
chunkify(n, w, k) == { i \in 1..n : (k - 1) * w < i /\ i <= k * w }
NumChunks(n, w) == (n + w - 1) \div w

\* ----------------------------------------------------- write_array_to_tiledb
\* Overlay with the new column added to the stored one instead of replacing it
OverlayAccumulate(cur_vals, d) ==
    [k \in DOMAIN cur_vals \cup DOMAIN d |->
        IF k \in DOMAIN d
        THEN IF k \in DOMAIN cur_vals
             THEN [i \in DOMAIN d[k] |-> cur_vals[k][i] + d[k][i]]
             ELSE d[k]
        ELSE cur_vals[k]]

\* lines 146-148: for key in dict_to_write: cur_vals[key] = dict_to_write[key]
Overlay(cur_vals, d) ==
    [k \in DOMAIN cur_vals \cup DOMAIN d |->
        IF k \in DOMAIN d THEN d[k] ELSE cur_vals[k]]

\* FillMissing with the NaN column sized by one cell too few
FillMissingShort(d, n) ==
    [k \in DOMAIN d \cup required_attrib |->
        IF k \in DOMAIN d THEN d[k] ELSE [i \in 1..(n - 1) |-> NaN]]

\* lines 152-155: every configured attribute the bundle lacks becomes a NaN column
FillMissing(d, n) ==
    [k \in DOMAIN d \cup required_attrib |->
        IF k \in DOMAIN d THEN d[k] ELSE NanColumn(n)]

\* LoopBatches with every slice one value short of its coordinate range
RECURSIVE LoopBatchesShort(_, _, _, _)
LoopBatchesShort(d, n, b, i) ==
    IF i >= n THEN << >>
    ELSE << [start |-> i, end |-> i + b,
             sub |-> [k \in DOMAIN d |-> PySlice(d[k], i, i + b - 1)]] >>
         \o LoopBatchesShort(d, n, b, i + b)

\* lines 160-164: the loop over range(0, num_entries, batch_size), from index i
RECURSIVE LoopBatches(_, _, _, _)
LoopBatches(d, n, b, i) ==
    IF i >= n THEN << >>
    ELSE << [start |-> i, end |-> i + b,
             sub |-> [k \in DOMAIN d |-> PySlice(d[k], i, i + b)]] >>
         \o LoopBatches(d, n, b, i + b)

\* the value of the loop variable i when the loop of line 160 has ended
LastI(n, b) == ((n - 1) \div b) * b

\* lines 165-168: the batch appended after the loop
TailBatch(d, n, b) ==
    [start |-> LastI(n, b) + b, end |-> n,
     sub |-> [k \in DOMAIN d |-> PySlice(d[k], LastI(n, b) + b, Len(d[k]))]]

\* lines 157-168: pool_inputs for the dictionary d with num_entries = n
BuildPoolInputs(d, n, b) == LoopBatches(d, n, b, 0) \o << TailBatch(d, n, b) >>

\* ------------------------------------------------------------- array store
\* A batch the store's contract covers: a range inside the domain [0, n) with
\* exactly as many values per attribute as the range holds.
ValidBatch(e, n) ==
    /\ 0 <= e.start /\ e.start <= e.end /\ e.end <= n
    /\ \A k \in DOMAIN e.sub : Len(e.sub[k]) = e.end - e.start

\* out_array[start:end] = sub_dict with the stop index clamped to the domain:
\* cell c (0-based) takes the value at offset c - start when there is one
Assign(content, e, n) ==
    [k \in DOMAIN content |->
        IF k \in DOMAIN e.sub
        THEN [c \in 1..n |->
                IF /\ e.start < c /\ c <= Min(e.end, n)
                   /\ c - e.start <= Len(e.sub[k])
                THEN e.sub[k][c - e.start] ELSE content[k][c]]
        ELSE content[k]]

\* ------------------------------------------------------------------ state
VARIABLES
    size,           \* chromosome length (inputs[1] of process_chrom)
    batch_size,     \* args.batch_size
    chunk_size,     \* the global chunk_size set by ingest (line 333)
    overwrite,      \* args.overwrite
    lenient,        \* whether this build of the store clamps a batch it does
                    \* not cover (TRUE) or rejects it (FALSE)
    bundle,         \* what the parsers return for this chromosome
    exists,         \* tiledb.object_type(array_out_name) == "array"
    content,        \* the stored array: attribute -> column of length size
    pc,             \* position of the process_chrom task
    updating,       \* local of process_chrom, passed to write_array_to_tiledb
    dict_to_write,  \* local of process_chrom / write_array_to_tiledb
    pool_inputs,    \* local of write_array_to_tiledb
    wave,           \* number of waves of pool_inputs submitted so far
    inflight,       \* indices of pool_inputs submitted and not yet terminal
    results,        \* index of pool_inputs -> "ok" | "failed", finished tasks
    err,            \* the exception that ended the task, "none" while running
    run,            \* 1 for the first invocation on this array path, 2 for ...
    hist            \* history of the current run, for the properties

cvars == << size, batch_size, chunk_size, overwrite, lenient, bundle, exists,
            content, pc, updating, dict_to_write, pool_inputs, wave, inflight,
            results, err, run, hist >>

config == << size, batch_size, chunk_size, overwrite, lenient, bundle >>

\* The process tree. A pool of max_workers = n has the worker processes
\* << f, 1 >> .. << f, n >>, f the frame that owns the pool; they are started
\* by the pool's first submit and exit when the pool has been shut down and
\* has no work left. A task is named by its path: <<d>> is create_tiledb_array
\* for dataset d, <<d, c>> is process_chrom for chromosome c of dataset d,
\* <<d, c, b>> is write_chunk for batch b of that array. A frame is a running
\* scheduler: << >> is ingest in the orchestrating process, <<d>> is
\* create_tiledb_array in a dataset worker, <<d, c>> is process_chrom and the
\* write_array_to_tiledb it calls, in a chromosome worker.
VARIABLES
    task_threads,   \* args.task_threads
    chrom_threads,  \* args.chrom_threads
    write_threads,  \* args.write_threads
    num_chroms,     \* the number of rows of the chromosome table
    arrays,         \* the array paths <<d, c>> that exist in the store
    status,         \* task -> "new" | "queued" | "running" | "ok" | "failed"
                    \*         | "killed"
    frame,          \* frame -> its position, wave, exception in flight, ...
    slot,           \* task -> the worker of its pool that took it, 0
                    \* before it starts
    signalled,      \* the worker processes a termination signal was sent to
    intr,           \* interrupts delivered to the orchestrating process
    faults          \* failures of the environment injected so far

\* what ingest is given: the pool sizes and the chromosome table
ingest_args == << task_threads, chrom_threads, write_threads, num_chroms >>

pvars == << ingest_args, arrays, status, frame, slot, signalled, intr, faults >>

vars == << cvars, pvars >>

\* the history record at the start of an invocation of process_chrom
NewHist(prev) ==
    [ existed   |-> exists,     \* the array was there when the task started
      before    |-> content,    \* and held this
      created   |-> FALSE,      \* create_new_array was called
      didRead   |-> FALSE,      \* the array was opened for reading
      nWrites   |-> 0,          \* write_chunk calls made
      prev      |-> prev ]      \* the history of the previous invocation

NoHist == [ none |-> TRUE ]

\* ------------------------------------------------------------ process_chrom
\* lines 70-115: an empty dense array over [0, size), one column per attribute
create_new_array(n) == [a \in required_attrib |-> [i \in 1..n |-> Unwritten]]

\* Provision without the overwrite check of line 238
ProvisionNoCheck ==
    /\ pc = "provision"
    /\ IF exists
       THEN /\ updating' = TRUE
            /\ pc' = "parse"
            /\ UNCHANGED << err, exists, content, hist >>
       ELSE /\ exists' = TRUE
            /\ content' = create_new_array(size)
            /\ hist' = [hist EXCEPT !.created = TRUE]
            /\ pc' = "parse"
            /\ UNCHANGED << updating, err >>
    /\ UNCHANGED pvars
    /\ UNCHANGED << config, dict_to_write, pool_inputs, wave, inflight,
                    results, run >>

\* lines 236-249
Provision ==
    /\ pc = "provision"
    /\ IF exists
       THEN IF overwrite = FALSE
            THEN /\ pc' = "raised"
                 /\ err' = "already exists"
                 /\ UNCHANGED << updating, exists, content, hist >>
            ELSE /\ updating' = TRUE
                 /\ pc' = "parse"
                 /\ UNCHANGED << err, exists, content, hist >>
       ELSE /\ exists' = TRUE
            /\ content' = create_new_array(size)
            /\ hist' = [hist EXCEPT !.created = TRUE]
            /\ pc' = "parse"
            /\ UNCHANGED << updating, err >>
    /\ UNCHANGED pvars
    /\ UNCHANGED << config, dict_to_write, pool_inputs, wave, inflight,
                    results, run >>

\* lines 250-261: dict_to_write[attribute] = parser(...) for each attribute
Parse ==
    /\ pc = "parse"
    /\ dict_to_write' = bundle
    /\ pc' = "prepare"
    /\ UNCHANGED pvars
    /\ UNCHANGED << config, exists, content, updating, pool_inputs, wave,
                    inflight, results, err, run, hist >>

\* Prepare without the read of the stored array in Updating mode
PrepareSkipRead ==
    /\ pc = "prepare"
    /\ IF updating = TRUE
       THEN UNCHANGED << dict_to_write, hist >>
       ELSE /\ dict_to_write' = FillMissing(dict_to_write, size)
            /\ UNCHANGED hist
    /\ pc' = "batches"
    /\ UNCHANGED pvars
    /\ UNCHANGED << config, exists, content, updating, pool_inputs, wave,
                    inflight, results, err, run >>

\* lines 141-155
Prepare ==
    /\ pc = "prepare"
    /\ IF updating = TRUE
       THEN /\ dict_to_write' = Overlay(content, dict_to_write)
            /\ hist' = [hist EXCEPT !.didRead = TRUE]
       ELSE /\ dict_to_write' = FillMissing(dict_to_write, size)
            /\ UNCHANGED hist
    /\ pc' = "batches"
    /\ UNCHANGED pvars
    /\ UNCHANGED << config, exists, content, updating, pool_inputs, wave,
                    inflight, results, err, run >>

\* lines 157-168; dict_keys[0] is whichever key the dictionary lists first
MakeBatches ==
    /\ pc = "batches"
    /\ \E k0 \in DOMAIN dict_to_write :
          pool_inputs' = BuildPoolInputs(dict_to_write,
                                         Len(dict_to_write[k0]), batch_size)
    /\ wave' = 0
    /\ inflight' = {}
    /\ results' = << >>
    /\ pc' = "write"
    /\ UNCHANGED pvars
    /\ UNCHANGED << config, exists, content, updating, dict_to_write, err,
                    run, hist >>

\* lines 171-179: once the previous wave has drained, submit the next one
SubmitWave ==
    /\ pc = "write"
    /\ inflight = {}
    /\ wave < NumChunks(Len(pool_inputs), chunk_size)
    /\ wave' = wave + 1
    /\ inflight' = chunkify(Len(pool_inputs), chunk_size, wave + 1)
    /\ UNCHANGED pvars
    /\ UNCHANGED << config, exists, content, pc, updating, dict_to_write,
                    pool_inputs, results, err, hist, run >>

\* lines 117-128: write_chunk(pool_inputs[i])
WriteChunk(i) ==
    /\ pc = "write"
    /\ i \in inflight
    /\ inflight' = inflight \ {i}
    /\ hist' = [hist EXCEPT !.nWrites = @ + 1]
    /\ IF ValidBatch(pool_inputs[i], size) \/ lenient
       THEN /\ content' = Assign(content, pool_inputs[i], size)
            /\ results' = (i :> "ok") @@ results
       ELSE /\ results' = (i :> "failed") @@ results
            /\ UNCHANGED content
    /\ UNCHANGED pvars
    /\ UNCHANGED << config, exists, pc, updating, dict_to_write, pool_inputs,
                    wave, err, run >>

\* Finish with the array removed from the store when the task ends by raising
FinishRollback ==
    /\ pc = "write"
    /\ inflight = {}
    /\ wave = NumChunks(Len(pool_inputs), chunk_size)
    /\ pc' = "raised"
    /\ err' = "UnboundLocalError"
    /\ exists' = FALSE
    /\ content' = << >>
    /\ UNCHANGED pvars
    /\ UNCHANGED << config, updating, dict_to_write, pool_inputs, wave,
                    inflight, results, run, hist >>

\* lines 180-184 and 270-274: write_array_to_tiledb returns, and process_chrom
\* goes on to "del pool_inputs", a name it never bound
Finish ==
    /\ pc = "write"
    /\ inflight = {}
    /\ wave = NumChunks(Len(pool_inputs), chunk_size)
    /\ pc' = "raised"
    /\ err' = "UnboundLocalError"
    /\ UNCHANGED pvars
    /\ UNCHANGED << config, exists, content, updating, dict_to_write,
                    pool_inputs, wave, inflight, results, run, hist >>

\* process_chrom is called again on the same array path with the same inputs
\* (the next run of ingest)
Rerun ==
    /\ pc = "raised"
    /\ run < MaxRuns
    /\ run' = run + 1
    /\ pc' = "provision"
    /\ err' = "none"
    /\ updating' = FALSE
    /\ dict_to_write' = << >>
    /\ pool_inputs' = << >>
    /\ wave' = 0
    /\ inflight' = {}
    /\ hist' = NewHist([hist EXCEPT !.prev = NoHist]
                         @@ [ updating |-> updating, results |-> results,
                              after |-> content, err |-> err ])
    /\ results' = << >>
    /\ UNCHANGED pvars
    /\ UNCHANGED << config, exists, content >>

\* ------------------------------------------------------------ process tree
Datasets == 1..NumDatasets
Chroms == 1..MaxChroms

\* the number of write batches of one array in the pipeline: lines 157-168 on
\* a chromosome of ChromLen cells with the default batch size
NumWriteTasks == Len(BuildPoolInputs(<< >>, ChromLen, default_batch_size))

DatasetTasks == { << d >> : d \in Datasets }
ChromTasks == { << d, c >> : d \in Datasets, c \in Chroms }
WriteTasks == { << d, c, b >> : d \in Datasets, c \in Chroms,
                                b \in 1..NumWriteTasks }
Tasks == DatasetTasks \cup ChromTasks \cup WriteTasks
Main == << >>
Frames == { Main } \cup DatasetTasks \cup ChromTasks

Parent(p) == SubSeq(p, 1, Len(p) - 1)
Descends(p, f) == Len(f) < Len(p) /\ SubSeq(p, 1, Len(f)) = f

\* the length of the task list of frame f (pool_inputs of lines 352, 297, 168)
NumTasks(f) ==
    CASE Len(f) = 0 -> NumDatasets
      [] Len(f) = 1 -> num_chroms
      [] OTHER      -> NumWriteTasks

\* max_workers of the pool of frame f (lines 355, 298, 169)
Threads(f) ==
    CASE Len(f) = 0 -> task_threads
      [] Len(f) = 1 -> chrom_threads
      [] OTHER      -> write_threads

Kid(f, i) == Append(f, i)
Kids(f) == { Kid(f, i) : i \in 1..NumTasks(f) }
\* the tasks of the k-th chunk of frame f
Chunk(f, k) == { Kid(f, i) : i \in chunkify(NumTasks(f), chunk_size, k) }
\* the index of the last task of the k-th chunk
ChunkEnd(f, k) == Min(k * chunk_size, NumTasks(f))

Terminal(st) == st \in { "ok", "failed", "killed" }
Unresolved(st) == st \in { "queued", "running" }

IdleFrame ==
    [ pc |-> "idle",        \* position in the function
      pool |-> FALSE,       \* the local name pool is bound
      updating |-> FALSE,   \* local of process_chrom
      prov |-> 0,           \* times the task went through lines 236-249
      wave |-> 0,           \* the chunk the loop is at
      next |-> 0,           \* tasks submitted so far
      err |-> "none",       \* the exception in flight, or the one that left
      caught |-> "none",    \* the exception the handler caught
      hlog |-> << >>,       \* the steps the handler has completed
      targets |-> {} ]      \* kill_child_processes: children left to signal

\* ingest has neither returned nor raised; the run is followed until it does
Running == frame[Main].pc \notin { "done", "raised" }

\* the process running frame f is alive
Alive(f) ==
    /\ Running
    /\ f # Main => status[f] = "running"

\* Path p comes before path q when the tree is walked parent first, the
\* subtrees in the order of the children.
RECURSIVE Before(_, _)
Before(p, q) ==
    IF p = << >> THEN q # << >>
    ELSE IF q = << >> THEN FALSE
    ELSE IF Head(p) # Head(q) THEN Head(p) < Head(q)
    ELSE Before(Tail(p), Tail(q))

At(f, where) == Alive(f) /\ frame[f].pc = where

\* frame f ends by raising e: ingest raises to its caller, a task's future
\* takes the exception (process_chrom has no handler of its own)
Raise(f, e) ==
    /\ frame' = [frame EXCEPT ![f].pc = "raised", ![f].err = e]
    /\ status' = IF f = Main THEN status ELSE [status EXCEPT ![f] = "failed"]

\* an exception e raised in the try block of frame f before the with block
Catch(f, e) ==
    frame' = [frame EXCEPT ![f].pc = "h_shutdown", ![f].err = e,
                           ![f].caught = e]

\* the pool of frame f is constructed and the loop over the chunks begins
EnterPool(f, upd) ==
    frame' = [frame EXCEPT ![f].pc = "loop", ![f].pool = TRUE,
                           ![f].updating = upd, ![f].wave = 1]

\* -------------------------------------------------------------------- pool
Workers == { << f, n >> : f \in Frames, n \in 1..MaxTaskThreads }

\* the worker that runs task p
SlotOf(p) == slot[p]
WorkerOf(p) == << Parent(p), SlotOf(p) >>

\* no submitted task of the pool of frame f is unresolved
PoolDrained(f) == \A q \in Kids(f) : ~Unresolved(status[q])

\* The workers of the pool of frame f have exited: the with block was left
\* in the normal way (shutdown(wait=True) joined them), or the pool was told
\* to shut down and has no work left.
WorkersExited(f) ==
    \/ frame[f].pc = "done"
    \/ /\ frame[f].pc \in { "exc_exit", "h_shutdown", "h_signal", "raised" }
       /\ PoolDrained(f)

\* worker w is a live process: started by the first submit of its pool, not
\* exited, not terminated by a signal
WorkerAlive(w) ==
    /\ w[2] <= Threads(w[1])
    /\ frame[w[1]].next >= 1
    /\ ~WorkersExited(w[1])
    /\ w \notin signalled

Busy(w) == \E q \in Kids(w[1]) : status[q] = "running" /\ WorkerOf(q) = w

\* the workers of the pool of the frame that submitted p that could take p
FreeSlots(p) ==
    { n \in 1..Threads(Parent(p)) :
        WorkerAlive(<< Parent(p), n >>) /\ ~Busy(<< Parent(p), n >>) }

\* an idle worker of the pool takes the queued task p
StartTask(p) ==
    /\ status[p] = "queued"
    /\ Alive(Parent(p))
    /\ FreeSlots(p) # {}
    /\ status' = [status EXCEPT ![p] = "running"]
    /\ slot' = [slot EXCEPT ![p] =
                  CHOOSE n \in FreeSlots(p) : \A m \in FreeSlots(p) : n <= m]
    /\ frame' = IF Len(p) = 1 THEN [frame EXCEPT ![p].pc = "open"]
                ELSE IF Len(p) = 2 THEN [frame EXCEPT ![p].pc = "provision"]
                ELSE frame
    /\ UNCHANGED << ingest_args, arrays, signalled, intr, faults, cvars >>

\* ------------------------------------------------------------------ ingest
\* lines 329-355: the task list is built and the dataset pool constructed
IngestStart ==
    /\ At(Main, "start")
    /\ EnterPool(Main, FALSE)
    /\ UNCHANGED << ingest_args, arrays, status, slot, signalled, intr,
                    faults, cvars >>

\* ----------------------------------------------------- create_tiledb_array
\* lines 280-298: the openers succeed, the chromosome pool is constructed
OpenData(f) ==
    /\ Len(f) = 1 /\ At(f, "open")
    /\ EnterPool(f, FALSE)
    /\ UNCHANGED << ingest_args, arrays, status, slot, signalled, intr,
                    faults, cvars >>

\* lines 289, 209-222: an opener raises, before line 298 binds pool
OpenFails(f) ==
    /\ Len(f) = 1 /\ At(f, "open")
    /\ intr + faults < MaxEvents
    /\ faults' = faults + 1
    /\ Catch(f, "OpenError")
    /\ UNCHANGED << ingest_args, arrays, status, slot, signalled, intr, cvars >>

\* ----------------------------------------------------------- process_chrom
\* lines 236-249
ProvisionTask(f) ==
    /\ Len(f) = 2 /\ At(f, "provision")
    /\ IF f \in arrays
       THEN IF overwrite = FALSE
            THEN /\ frame' = [frame EXCEPT ![f].pc = "raised",
                                           ![f].err = "AlreadyExists",
                                           ![f].prov = @ + 1]
                 /\ status' = [status EXCEPT ![f] = "failed"]
                 /\ UNCHANGED arrays
            ELSE /\ frame' = [frame EXCEPT ![f].pc = "parse",
                                           ![f].updating = TRUE,
                                           ![f].prov = @ + 1]
                 /\ UNCHANGED << arrays, status >>
       ELSE /\ arrays' = arrays \cup { f }
            /\ frame' = [frame EXCEPT ![f].pc = "parse", ![f].prov = @ + 1]
            /\ UNCHANGED status
    /\ UNCHANGED << ingest_args, slot, signalled, intr, faults, cvars >>

\* lines 250-261: every parser returns
ParseTask(f) ==
    /\ Len(f) = 2 /\ At(f, "parse")
    /\ frame' = [frame EXCEPT ![f].pc = "prepare"]
    /\ UNCHANGED << ingest_args, arrays, status, slot, signalled, intr,
                    faults, cvars >>

\* line 260: a parser raises; process_chrom has no handler
ParseFails(f) ==
    /\ Len(f) = 2 /\ At(f, "parse")
    /\ intr + faults < MaxEvents
    /\ faults' = faults + 1
    /\ Raise(f, "ParseError")
    /\ UNCHANGED << ingest_args, arrays, slot, signalled, intr, cvars >>

\* PrepareTask open to a task that has not been through lines 236-249 yet
PrepareTaskUnprovisioned(f) ==
    /\ Len(f) = 2
    /\ At(f, "provision") \/ At(f, "prepare")
    /\ EnterPool(f, frame[f].updating)
    /\ UNCHANGED << ingest_args, arrays, status, slot, signalled, intr,
                    faults, cvars >>

\* lines 263, 140-169: write_array_to_tiledb prepares the dictionary and the
\* batches and constructs the write pool
PrepareTask(f) ==
    /\ Len(f) = 2 /\ At(f, "prepare")
    /\ EnterPool(f, frame[f].updating)
    /\ UNCHANGED << ingest_args, arrays, status, slot, signalled, intr,
                    faults, cvars >>

\* lines 143-144: reading the existing array raises, before line 169 binds pool
ReadFails(f) ==
    /\ Len(f) = 2 /\ At(f, "prepare")
    /\ frame[f].updating
    /\ intr + faults < MaxEvents
    /\ faults' = faults + 1
    /\ Catch(f, "ReadError")
    /\ UNCHANGED << ingest_args, arrays, status, slot, signalled, intr, cvars >>

\* ------------------------------------------------------------- write_chunk
\* lines 117-128: the batch is written
WriteChunkTask(p) ==
    /\ Running
    /\ Len(p) = 3 /\ status[p] = "running"
    /\ status' = [status EXCEPT ![p] = "ok"]
    /\ UNCHANGED << ingest_args, arrays, frame, slot, signalled, intr,
                    faults, cvars >>

\* lines 123-124: the store rejects the batch
WriteChunkFails(p) ==
    /\ Running
    /\ Len(p) = 3 /\ status[p] = "running"
    /\ intr + faults < MaxEvents
    /\ faults' = faults + 1
    /\ status' = [status EXCEPT ![p] = "failed"]
    /\ UNCHANGED << ingest_args, arrays, frame, slot, signalled, intr, cvars >>

\* ---------------------------------------------------------- wave scheduler
\* The loop of lines 171-179, 300-307 and 356-363, the same at the three levels.

\* Submit going on into the next chunk without the wait between chunks
SubmitAhead(f) ==
    /\ At(f, "loop")
    /\ frame[f].next < NumTasks(f)
    /\ status' = [status EXCEPT ![Kid(f, frame[f].next + 1)] = "queued"]
    /\ frame' = [frame EXCEPT ![f].next = @ + 1]
    /\ UNCHANGED << ingest_args, arrays, slot, signalled, intr, faults, cvars >>

\* lines 174, 303, 359: pool.submit of the next element of the current chunk
Submit(f) ==
    /\ At(f, "loop")
    /\ frame[f].next < ChunkEnd(f, frame[f].wave)
    /\ status' = [status EXCEPT ![Kid(f, frame[f].next + 1)] = "queued"]
    /\ frame' = [frame EXCEPT ![f].next = @ + 1]
    /\ UNCHANGED << ingest_args, arrays, slot, signalled, intr, faults, cvars >>

\* pool.submit raises (the pool cannot start a worker, or is broken)
SubmitFails(f) ==
    /\ At(f, "loop")
    /\ frame[f].next < ChunkEnd(f, frame[f].wave)
    /\ intr + faults < MaxEvents
    /\ faults' = faults + 1
    /\ frame' = [frame EXCEPT ![f].pc = "exc_exit", ![f].err = "SubmitError"]
    /\ UNCHANGED << ingest_args, arrays, status, slot, signalled, intr, cvars >>

\* the chunk is submitted and futures.as_completed has yielded every future
\* of it; nothing looks at a future's result or exception
WaveDrained(f) ==
    /\ frame[f].next = ChunkEnd(f, frame[f].wave)
    /\ \A q \in Chunk(f, frame[f].wave) : Terminal(status[q])

\* the loop goes to the next chunk without waiting for the futures
AwaitWaveNoWait(f) ==
    /\ At(f, "loop")
    /\ frame[f].next = ChunkEnd(f, frame[f].wave)
    /\ frame[f].wave < NumChunks(NumTasks(f), chunk_size)
    /\ frame' = [frame EXCEPT ![f].wave = @ + 1]
    /\ UNCHANGED << ingest_args, arrays, status, slot, signalled, intr,
                    faults, cvars >>

\* lines 176-179, 305-307, 361-363, then the next chunk of the for loop
AwaitWave(f) ==
    /\ At(f, "loop")
    /\ WaveDrained(f)
    /\ frame[f].wave < NumChunks(NumTasks(f), chunk_size)
    /\ frame' = [frame EXCEPT ![f].wave = @ + 1]
    /\ UNCHANGED << ingest_args, arrays, status, slot, signalled, intr,
                    faults, cvars >>

\* PoolExit taken as soon as one chunk has drained, the later chunks dropped
PoolExitEarly(f) ==
    /\ At(f, "loop")
    /\ WaveDrained(f)
    /\ IF Len(f) = 2
       THEN Raise(f, "UnboundLocalError")
       ELSE /\ frame' = [frame EXCEPT ![f].pc = "done"]
            /\ status' = IF f = Main THEN status
                         ELSE [status EXCEPT ![f] = "ok"]
    /\ UNCHANGED << ingest_args, arrays, slot, signalled, intr, faults, cvars >>

\* The last chunk has drained: the with block ends (every future is done, so
\* the pool's shutdown has nothing to wait for) and the function goes on.
\* ingest returns "done" (line 378); create_tiledb_array returns "done" (line
\* 326); write_array_to_tiledb returns to process_chrom, whose line 272 is
\* "del pool_inputs", a name process_chrom never bound.
PoolExit(f) ==
    /\ At(f, "loop")
    /\ WaveDrained(f)
    /\ frame[f].wave = NumChunks(NumTasks(f), chunk_size)
    /\ IF Len(f) = 2
       THEN Raise(f, "UnboundLocalError")
       ELSE /\ frame' = [frame EXCEPT ![f].pc = "done"]
            /\ status' = IF f = Main THEN status
                         ELSE [status EXCEPT ![f] = "ok"]
    /\ UNCHANGED << ingest_args, arrays, slot, signalled, intr, faults, cvars >>

\* An exception leaves the with block: the executor's __exit__ is
\* shutdown(wait=True), which returns when no submitted task is unresolved.
\* Then the except clause that matches takes the exception.
ExcExit(f) ==
    /\ At(f, "exc_exit")
    /\ \A q \in Kids(f) : ~Unresolved(status[q])
    /\ frame' = [frame EXCEPT ![f].pc = "h_shutdown", ![f].caught = frame[f].err]
    /\ UNCHANGED << ingest_args, arrays, status, slot, signalled, intr,
                    faults, cvars >>

\* SIGINT reaches the orchestrating process (the workers ignore it, lines
\* 25-26): KeyboardInterrupt is raised where ingest is, in the loop or in the
\* wait of the with block's exit, which it abandons.
Interrupt ==
    /\ intr + faults < MaxEvents
    /\ \/ /\ At(Main, "loop")
          /\ frame' = [frame EXCEPT ![Main].pc = "exc_exit",
                                    ![Main].err = "KeyboardInterrupt"]
       \/ /\ At(Main, "exc_exit")
          /\ frame' = [frame EXCEPT ![Main].pc = "h_shutdown",
                                    ![Main].err = "KeyboardInterrupt",
                                    ![Main].caught = "KeyboardInterrupt"]
    /\ intr' = intr + 1
    /\ UNCHANGED << ingest_args, arrays, status, slot, signalled, faults, cvars >>

\* ---------------------------------------------------------------- handlers
\* lines 186-199, 312-325, 364-377

\* the worker processes that descend from the process running frame f
Descendants(f) ==
    { w \in Workers : (w[1] = f \/ Descends(w[1], f)) /\ WorkerAlive(w) }

\* where worker w stands in the process tree under the orchestrating process:
\* the workers that run the tasks it descends from, then its own number
PlaceOf(w) ==
    [i \in 1..Len(w[1]) |-> slot[SubSeq(w[1], 1, i)]] \o << w[2] >>

\* First statements of the handler: pool.shutdown(wait=False), which returns
\* at once, then lines 30-33 of kill_child_processes, which enumerate the
\* descendants of the current process. The name pool is unbound when the
\* exception came before the with statement; line 196 spells the method
\* "shudown".
HShutdown(f) ==
    /\ At(f, "h_shutdown")
    /\ IF ~frame[f].pool
       THEN Raise(f, "UnboundLocalError")
       ELSE IF Len(f) = 2 /\ frame[f].caught # "KeyboardInterrupt"
       THEN Raise(f, "AttributeError")
       ELSE /\ frame' = [frame EXCEPT
                           ![f].pc = "h_signal",
                           ![f].hlog = Append(@, "shutdown"),
                           ![f].targets = Descendants(f)]
            /\ UNCHANGED status
    /\ UNCHANGED << ingest_args, arrays, slot, signalled, intr, faults, cvars >>

\* lines 34-35: process.send_signal(sig) for each enumerated process, in the
\* order of the list children(recursive=True) returned (a process before its
\* descendants). A live process dies of the signal. One that has exited
\* since the enumeration is either still a zombie, and the signal is lost, or
\* has been reaped by the management thread of its pool, and send_signal
\* raises NoSuchProcess and the loop ends there. The result: the processes
\* signalled, and whether it raised.
RECURSIVE SendSignals(_, _, _)
SendSignals(targets, sent, reaped) ==
    IF targets = {} THEN [ sent |-> sent, raised |-> FALSE ]
    ELSE LET w == CHOOSE x \in targets :
                     \A y \in targets \ { x } : Before(PlaceOf(x), PlaceOf(y))
         IN  IF WorkerAlive(w)
             THEN SendSignals(targets \ { w }, sent \cup { w }, reaped)
             ELSE IF reaped
             THEN [ sent |-> sent, raised |-> TRUE ]
             ELSE SendSignals(targets \ { w }, sent, reaped)

\* lines 34-35, then lines 192, 199, 318, 325, 370, 377: the signals are sent
\* and the caught exception is raised again; an exception of send_signal
\* leaves the handler in its place
HKill(f) ==
    /\ At(f, "h_signal")
    /\ \E reaped \in BOOLEAN :
       LET r == SendSignals(frame[f].targets, {}, reaped)
           st == [p \in Tasks |->
                    IF status[p] = "running" /\ WorkerOf(p) \in r.sent
                    THEN "killed" ELSE status[p]]
       IN  /\ status' = IF f = Main THEN st ELSE [st EXCEPT ![f] = "failed"]
           /\ signalled' = signalled \cup r.sent
           /\ frame' = IF r.raised
                       THEN [frame EXCEPT ![f].pc = "raised",
                                          ![f].err = "NoSuchProcess"]
                       ELSE [frame EXCEPT ![f].pc = "raised",
                                          ![f].targets = {},
                                          ![f].hlog = Append(@, "kill")]
    /\ UNCHANGED << ingest_args, arrays, slot, intr, faults, cvars >>

\* ----------------------------------------------------------- specifications
\* the process_chrom variables while the pipeline runs
ChromUnused ==
    /\ size = ChromLen
    /\ batch_size = default_batch_size
    /\ lenient = TRUE
    /\ bundle = << >>
    /\ exists = FALSE
    /\ content = << >>
    /\ pc = "pipeline"
    /\ updating = FALSE
    /\ dict_to_write = << >>
    /\ pool_inputs = << >>
    /\ wave = 0
    /\ inflight = {}
    /\ results = << >>
    /\ err = "none"
    /\ run = 1
    /\ hist = NoHist

\* the pipeline variables while one process_chrom runs on its own
PipelineUnused ==
    /\ task_threads = 1
    /\ chrom_threads = default_chrom_threads
    /\ write_threads = default_write_threads
    /\ num_chroms = 1
    /\ arrays = {}
    /\ status = [p \in Tasks |-> "new"]
    /\ frame = [f \in Frames |-> IdleFrame]
    /\ slot = [p \in Tasks |-> 0]
    /\ signalled = {}
    /\ intr = 0
    /\ faults = 0

\* ingest is called; an earlier run may have left the arrays of the first
\* few datasets in the group
Init ==
    /\ chunk_size \in 1..MaxChunk
    /\ overwrite \in BOOLEAN
    /\ task_threads \in 1..MaxTaskThreads
    /\ chrom_threads = default_chrom_threads
    /\ write_threads = default_write_threads
    /\ num_chroms \in 1..NumChroms
    /\ \E k \in 0..NumDatasets :
          arrays = { p \in ChromTasks : p[1] <= k /\ p[2] <= num_chroms }
    /\ status = [p \in Tasks |-> "new"]
    /\ frame = [f \in Frames |->
                  IF f = Main THEN [IdleFrame EXCEPT !.pc = "start"]
                  ELSE IdleFrame]
    /\ slot = [p \in Tasks |-> 0]
    /\ signalled = {}
    /\ intr = 0
    /\ faults = 0
    /\ ChromUnused

Next ==
    \/ IngestStart
    \/ Interrupt
    \/ \E p \in Tasks : StartTask(p)
    \/ \E f \in Frames : OpenData(f)
    \/ \E f \in Frames : OpenFails(f)
    \/ \E f \in Frames : ProvisionTask(f)
    \/ \E f \in Frames : ParseTask(f)
    \/ \E f \in Frames : ParseFails(f)
    \/ \E f \in Frames : PrepareTask(f)
    \/ \E f \in Frames : ReadFails(f)
    \/ \E p \in Tasks : WriteChunkTask(p)
    \/ \E p \in Tasks : WriteChunkFails(p)
    \/ \E f \in Frames : Submit(f)
    \/ \E f \in Frames : SubmitFails(f)
    \/ \E f \in Frames : AwaitWave(f)
    \/ \E f \in Frames : PoolExit(f)
    \/ \E f \in Frames : ExcExit(f)
    \/ \E f \in Frames : HShutdown(f)
    \/ \E f \in Frames : HKill(f)

Spec == Init /\ [][Next]_vars

\* ingest is called with pool sizes of one worker or more (MaxExtraWorkers
\* workers beyond one per pool, over the three pools) and a chromosome table
\* of one or more rows, and nothing in its environment fails or interrupts it
InitFaultFree ==
    /\ chunk_size \in 1..MaxChunk
    /\ overwrite \in BOOLEAN
    /\ task_threads \in 1..MaxTaskThreads
    /\ chrom_threads \in 1..MaxTaskThreads
    /\ write_threads \in 1..MaxTaskThreads
    /\ (task_threads - 1) + (chrom_threads - 1) + (write_threads - 1)
          <= MaxExtraWorkers
    /\ num_chroms \in 1..MaxChroms
    /\ \E k \in 0..NumDatasets :
          arrays = { p \in ChromTasks : p[1] <= k /\ p[2] <= num_chroms }
    /\ status = [p \in Tasks |-> "new"]
    /\ frame = [f \in Frames |->
                  IF f = Main THEN [IdleFrame EXCEPT !.pc = "start"]
                  ELSE IdleFrame]
    /\ slot = [p \in Tasks |-> 0]
    /\ signalled = {}
    /\ intr = 0
    /\ faults = 0
    /\ ChromUnused

NextFaultFree ==
    \/ IngestStart
    \/ \E p \in Tasks : StartTask(p)
    \/ \E f \in Frames : OpenData(f)
    \/ \E f \in Frames : ProvisionTask(f)
    \/ \E f \in Frames : ParseTask(f)
    \/ \E f \in Frames : PrepareTask(f)
    \/ \E p \in Tasks : WriteChunkTask(p)
    \/ \E f \in Frames : Submit(f)
    \/ \E f \in Frames : AwaitWave(f)
    \/ \E f \in Frames : PoolExit(f)

SpecFaultFree == InitFaultFree /\ [][NextFaultFree]_vars

\* process_chrom is called for one chromosome; the array may be there already
InitChrom ==
    /\ size \in 1..MaxSize
    /\ batch_size \in 1..MaxBatch
    /\ chunk_size \in 1..MaxChunk
    /\ overwrite \in BOOLEAN
    /\ lenient \in BOOLEAN
    /\ \E keys \in SUBSET required_attrib :
          bundle = [k \in keys |-> [i \in 1..size |-> NewVal(k, i - 1)]]
    /\ exists \in BOOLEAN
    /\ content = IF exists
                 THEN [a \in required_attrib |->
                          [i \in 1..size |-> OldVal(a, i - 1)]]
                 ELSE << >>
    /\ pc = "provision"
    /\ updating = FALSE
    /\ dict_to_write = << >>
    /\ pool_inputs = << >>
    /\ wave = 0
    /\ inflight = {}
    /\ results = << >>
    /\ err = "none"
    /\ run = 1
    /\ hist = NewHist(NoHist)
    /\ PipelineUnused

NextChrom ==
    \/ Provision
    \/ Parse
    \/ Prepare
    \/ MakeBatches
    \/ SubmitWave
    \/ \E i \in 1..(MaxSize + 2) : WriteChunk(i)
    \/ Finish
    \/ Rerun

SpecChrom == InitChrom /\ [][NextChrom]_vars

\* ------------------------------------------------- properties of SpecChrom
\* write_array_to_tiledb has returned: every wave was submitted and drained
WriteReturned == pc = "raised" /\ err = "UnboundLocalError"

\* every write_chunk of the current run ended without raising
AllBatchesOk ==
    /\ DOMAIN results = 1..Len(pool_inputs)
    /\ \A i \in DOMAIN results : results[i] = "ok"

\* the values of attribute a handed to the write batches, in batch order
RECURSIVE Handed(_, _)
Handed(inputs, a) ==
    IF inputs = << >> THEN << >>
    ELSE Head(inputs).sub[a] \o Handed(Tail(inputs), a)

\* C4: the (start, end) ranges of the write batches are contiguous from 0 to
\* size, none runs backwards or beyond the domain (so they are disjoint and
\* their union is [0, size)), and all but the last have length batch_size.
C4_BatchesPartitionDomain ==
    pc = "write" =>
        LET n == Len(pool_inputs) IN
        /\ pool_inputs[1].start = 0
        /\ pool_inputs[n].end = size
        /\ \A j \in 1..n :
              /\ pool_inputs[j].start <= pool_inputs[j].end
              /\ pool_inputs[j].end <= size
        /\ \A j \in 1..(n - 1) :
              /\ pool_inputs[j + 1].start = pool_inputs[j].end
              /\ pool_inputs[j].end - pool_inputs[j].start = batch_size

\* C5: once provisioning has decided, (a) an absent array was created and the
\* task goes on with updating = FALSE; (b) an existing array without overwrite
\* ended the task with "already exists" and nothing was created, read or
\* written; (c) an existing array with overwrite was not created again and the
\* task goes on with updating = TRUE.
C5_Provisioning ==
    pc # "provision" =>
        /\ (~hist.existed =>
              /\ hist.created /\ exists
              /\ updating = FALSE /\ err # "already exists")
        /\ (hist.existed /\ overwrite = FALSE =>
              /\ pc = "raised" /\ err = "already exists"
              /\ ~hist.created /\ ~hist.didRead /\ hist.nWrites = 0
              /\ content = hist.before)
        /\ (hist.existed /\ overwrite = TRUE =>
              /\ ~hist.created
              /\ updating = TRUE /\ err # "already exists")

\* a second invocation met the array the first one created and was refused
C5_Witness ==
    /\ run = 2 /\ pc = "raised" /\ err = "already exists"
    /\ hist.prev.created /\ hist.prev.updating = FALSE

\* C8: in first-write mode the batches carry, for every configured attribute,
\* a column of length size: the bundle's column where the bundle has one, NaN
\* over the whole domain where it has none.
C8_FirstWriteFillsMissing ==
    (pc = "write" /\ updating = FALSE) =>
        \A a \in required_attrib :
            /\ a \in DOMAIN dict_to_write
            /\ Len(dict_to_write[a]) = size
            /\ \A j \in 1..Len(pool_inputs) : a \in DOMAIN pool_inputs[j].sub
            /\ Handed(pool_inputs, a) =
                  IF a \in DOMAIN bundle THEN bundle[a] ELSE NanColumn(size)

\* first write of several batches with a bundle that lacks an attribute
C8_Witness ==
    /\ pc = "write" /\ updating = FALSE
    /\ DOMAIN bundle # required_attrib /\ DOMAIN bundle # {}
    /\ Len(pool_inputs) >= 3

\* C9: a second Updating write with the same bundle, after a first one that
\* returned, leaves the stored content as the first one left it.
C9_UpdateIdempotent ==
    (/\ run >= 2 /\ WriteReturned /\ updating = TRUE
     /\ hist.prev.updating = TRUE /\ hist.prev.err = "UnboundLocalError")
        => content = hist.prev.after

\* two Updating writes in a row that replaced a column of several batches
C9_Witness ==
    /\ run >= 2 /\ WriteReturned /\ updating = TRUE
    /\ hist.prev.updating = TRUE /\ hist.prev.err = "UnboundLocalError"
    /\ DOMAIN bundle # {} /\ size > batch_size
    /\ content # hist.prev.before

\* C10: after an Updating write all of whose batches were written, a column
\* the bundle does not name is as it was before the update and a column it
\* names is the bundle's column over the whole domain.
C10_UpdateFrame ==
    (WriteReturned /\ updating = TRUE /\ AllBatchesOk) =>
        \A a \in required_attrib :
            content[a] = IF a \in DOMAIN bundle THEN bundle[a]
                         ELSE hist.before[a]

\* an Updating write of several batches that named some attributes, not all
C10_Witness ==
    /\ WriteReturned /\ updating = TRUE /\ AllBatchesOk
    /\ DOMAIN bundle # {} /\ DOMAIN bundle # required_attrib
    /\ size > batch_size

\* C13: in a run that follows one that ended by raising, the array the
\* earlier run created or found is still in the store with the content that
\* run left, and the task that meets it ends with "already exists" when
\* overwrite is False and goes on with updating = TRUE when overwrite is True.
C13_NoRollbackThenConflict ==
    run >= 2 =>
        /\ (hist.prev.existed \/ hist.prev.created) =>
              /\ hist.existed
              /\ hist.before = hist.prev.after
        /\ (hist.existed /\ pc # "provision") =>
              IF overwrite
              THEN updating = TRUE /\ err # "already exists" /\ ~hist.created
              ELSE pc = "raised" /\ err = "already exists" /\ hist.nWrites = 0

\* the first run created the array, wrote to it and ended by raising; the
\* second run, with overwrite, is writing to it in Updating mode
C13_Witness ==
    /\ run = 2 /\ overwrite = TRUE
    /\ hist.prev.created /\ hist.prev.err = "UnboundLocalError"
    /\ hist.prev.nWrites > 0
    /\ pc = "write" /\ updating = TRUE /\ hist.nWrites > 0

\* C18: in Updating mode nothing of the write has begun while the task has
\* not read the array (no batch built, none submitted, none written), and
\* from the overlay on the dictionary handed to the batches is the content
\* the array had before any write of this run, overlaid with the bundle: the
\* read came before the overlay and both before the first batch.
C18_ReadOverlayWrite ==
    /\ pc \in { "provision", "parse", "prepare" } =>
          /\ hist.didRead = FALSE
          /\ pool_inputs = << >> /\ inflight = {} /\ hist.nWrites = 0
    /\ (updating = TRUE /\ pc \in { "batches", "write" }) =>
          /\ hist.didRead
          /\ dict_to_write = Overlay(hist.before, bundle)
    /\ (updating = TRUE /\ pc = "batches") =>
          pool_inputs = << >> /\ inflight = {} /\ hist.nWrites = 0

\* an update whose bundle replaces one of two columns is writing its batches,
\* some already written
C18_Witness ==
    /\ updating = TRUE /\ pc = "write"
    /\ hist.didRead /\ hist.nWrites > 0 /\ inflight # {}
    /\ DOMAIN bundle # {} /\ DOMAIN bundle # required_attrib
    /\ content # hist.before

\* C19: a process_chrom whose provisioning and parsing succeeded and whose
\* write batches were all written does not end by raising: it returns 'done'.
C19_SuccessReturnsDone ==
    (/\ Len(pool_inputs) > 0
     /\ wave = NumChunks(Len(pool_inputs), chunk_size)
     /\ AllBatchesOk)
        => pc # "raised"

\* C20: every write batch has 0 <= start <= end <= size and carries, for each
\* attribute, exactly end - start values.
C20_BatchesWellFormed ==
    \A j \in 1..Len(pool_inputs) :
        /\ 0 <= pool_inputs[j].start
        /\ pool_inputs[j].start <= pool_inputs[j].end
        /\ pool_inputs[j].end <= size
        /\ \A a \in DOMAIN pool_inputs[j].sub :
              Len(pool_inputs[j].sub[a])
                  = pool_inputs[j].end - pool_inputs[j].start

\* ------------------------------------------------------ properties of Spec
\* the tasks frame f has submitted that have not reached a terminal state
InFlight(f) == { q \in Kids(f) : Unresolved(status[q]) }

\* the chunk of frame f that task q belongs to
WaveOf(f, q) == CHOOSE k \in 1..NumChunks(NumTasks(f), chunk_size) :
                    q \in Chunk(f, k)

\* C1: at each level, once a task of wave k has failed, no task of a later
\* wave is submitted to the pool: the scheduler raises the failure when wave k
\* has drained instead of going on to wave k+1.
C1_FailureStopsLaterWaves ==
    \A f \in Frames : \A p, q \in Kids(f) :
        (status[p] = "failed" /\ WaveOf(f, p) < WaveOf(f, q))
            => status[q] = "new"

\* C2: ingest does not return "done" in a run in which a task failed: a
\* failure at any level ends ingest by raising.
C2_FailFast ==
    frame[Main].pc = "done" => \A p \in Tasks : status[p] # "failed"

\* C3: at every level and in every state, the tasks submitted to the pool and
\* not yet terminal number at most chunk_size, whatever the length of the task
\* list and the number of workers of the pool.
C3_WaveBound ==
    \A f \in Frames : Cardinality(InFlight(f)) <= chunk_size

\* a scheduler is in a wave after the first with a full wave in flight, a
\* task of it still waiting for a worker
C3_Witness ==
    \E f \in Frames :
        /\ frame[f].pc = "loop" /\ frame[f].wave >= 2
        /\ Cardinality(InFlight(f)) = chunk_size
        /\ \E q \in InFlight(f) : status[q] = "queued"

\* the position of task q in the task list of the frame that submits it
IndexOf(q) == q[Len(q)]

\* C14: at each level, tasks are submitted in the order of the task list (the
\* submitted tasks are the first frame.next of the list), each at most once
\* (no task returns to the queue once it has left it), and a task of wave k+1
\* is submitted only when every task of wave k is terminal, in whatever
\* order the tasks of a wave complete.
C14_WaveBarrierAndOrder ==
    \A f \in Frames :
        /\ { q \in Kids(f) : status[q] # "new" }
              = { q \in Kids(f) : IndexOf(q) <= frame[f].next }
        /\ \A p, q \in Kids(f) :
              (WaveOf(f, p) < WaveOf(f, q) /\ status[q] # "new")
                  => Terminal(status[p])
        /\ \A p \in Kids(f) :
              status[p] = "queued" => slot[p] = 0

\* the second wave of a scheduler is in flight, the first has drained
C14_Witness ==
    \E f \in Frames :
        /\ frame[f].wave >= 2
        /\ \E q \in Chunk(f, frame[f].wave) : Unresolved(status[q])
        /\ \A p \in Chunk(f, 1) : Terminal(status[p])

\* C6: at every level, a handler that caught a failure or the interrupt and
\* has ended did so by shutting the pool down, then signalling the descendant
\* processes, then raising what it caught: the signalling step was reached
\* and the exception that leaves is the one that entered.
C6_HandlerOrder ==
    \A f \in Frames :
        (frame[f].pc = "raised" /\ frame[f].caught # "none") =>
            /\ frame[f].hlog = << "shutdown", "kill" >>
            /\ frame[f].err = frame[f].caught

\* C15: a handler that got as far as kill_child_processes ends with the kill
\* completed and the caught exception raised again, also when descendants it
\* enumerated have exited or been terminated in the meantime; kill_child_
\* processes itself never raises.
C15_KillToleratesExitedChildren ==
    \A f \in Frames :
        (frame[f].pc = "raised" /\ frame[f].hlog # << >>) =>
            /\ frame[f].err # "NoSuchProcess"
            /\ frame[f].hlog = << "shutdown", "kill" >>
            /\ frame[f].err = frame[f].caught
            /\ \A w \in frame[f].targets : w \in signalled \/ ~WorkerAlive(w)

\* the process of frame f is held in the exit of its with block: an exception
\* is leaving the block and a task submitted to the pool is still unresolved
HeldInWithExit(f) ==
    /\ Alive(f)
    /\ frame[f].pc = "exc_exit"
    /\ \E q \in Kids(f) : Unresolved(status[q])

\* C16: when an exception or the interrupt leaves the with block of a level
\* while tasks of its pool are queued or running, the process is not held
\* waiting for them: it goes to the handler, which shuts the pool down without
\* waiting, at once.
C16_FailurePathDoesNotWait ==
    \A f \in Frames : ~HeldInWithExit(f)

\* C17: a failure raised before the pool of the level was constructed (the
\* opener in create_tiledb_array, the read of the existing array in
\* write_array_to_tiledb) has, when the function has ended, been through the
\* termination of the descendants and is the exception the function raised.
C17_FailureBeforePool ==
    \A f \in Frames :
        (frame[f].pc = "raised" /\ frame[f].caught \in { "OpenError", "ReadError" })
            => /\ "kill" \in { frame[f].hlog[i] : i \in DOMAIN frame[f].hlog }
               /\ frame[f].err = frame[f].caught

\* C7: when ingest has ended in a run in which the interrupt was delivered
\* while waves were running, it ended by raising KeyboardInterrupt and no
\* worker process of the run, at any level, is alive without having been sent
\* the termination signal.
C7_InterruptTerminatesAll ==
    (intr > 0 /\ ~Running) =>
        /\ frame[Main].pc = "raised"
        /\ frame[Main].err = "KeyboardInterrupt"
        /\ \A w \in Workers : ~WorkerAlive(w)

\* ---------------------------------------------- properties of SpecFaultFree
\* the chromosome tasks of the run: one per row of the metadata table and row
\* of the chromosome table
RunChromTasks == { f \in ChromTasks : f[2] <= num_chroms }

\* the chromosome tasks that were handed to a pool
Created == { f \in RunChromTasks : status[f] # "new" }

RECURSIVE SumProv(_)
SumProv(fs) ==
    IF fs = {} THEN 0
    ELSE LET f == CHOOSE x \in fs : TRUE
         IN  frame[f].prov + SumProv(fs \ { f })

\* C11: when ingest has returned from a run in which nothing failed it, D * C
\* chromosome tasks were created and D * C provisioning decisions were made,
\* one per (dataset, chromosome) pair, whatever the pool sizes and the order
\* in which the workers ran.
C11_TaskCount ==
    frame[Main].pc = "done" =>
        /\ Cardinality(Created) = NumDatasets * num_chroms
        /\ SumProv(ChromTasks) = NumDatasets * num_chroms
        /\ \A f \in RunChromTasks : frame[f].prov = 1

\* ingest has returned from a run over two datasets and two chromosomes in
\* which two tasks of a pool of two workers ran at the same time
C11_Witness ==
    /\ frame[Main].pc = "done"
    /\ num_chroms >= 2
    /\ task_threads + chrom_threads >= 3
    /\ \E p, q \in Tasks : p # q /\ Parent(p) = Parent(q) /\ Len(p) <= 2
                           /\ slot[p] = 1 /\ slot[q] = 2

====
